---- MODULE Spec2Model ----
(***************************************************************************)
(* Model of src/scripts/crt-effects.ts: the CRT overlay (bloom layers, the *)
(* WebGL surface, its resize handler and its frame loop), the fragment     *)
(* shader's arithmetic, and the menu toggle.                               *)
(*                                                                         *)
(* The page is one single-threaded event loop: every action below is one   *)
(* task of that loop (the DOMContentLoaded handler, a resize dispatch, an  *)
(* animation-frame callback, a click) or one step of the environment (the  *)
(* clock advancing, the user resizing the window).                         *)
(*                                                                         *)
(* GLSL floats are modelled in fixed point: a float x is the integer       *)
(* floor(x * FP).  sin is Bhaskara's rational approximation, which is      *)
(* exact at 0, pi/6, pi/2, 5pi/6 and pi and within 0.002 elsewhere.        *)
(***************************************************************************)
EXTENDS Integers, Sequences, FiniteSets

VARIABLES
    pc,              \* "loading" until DOMContentLoaded has been handled, then "ready"
    env,             \* what the browser's WebGL implementation will answer
    page,            \* the host document: "noNav", "navOnly" or "navList"
    clock,           \* performance.now(), in milliseconds
    innerDims,       \* <<window.innerWidth, window.innerHeight>>
    resizeQueued,    \* a resize event is waiting in the event queue
    body,            \* the overlay elements appended to document.body, in order
    crt,             \* "none", "failed" (initCRT returned early) or "running"
    initCalls,       \* how many times initCRT has been called
    threw,           \* an exception escaped the DOMContentLoaded handler
    menuRan,         \* initMenu has been called
    canvasDims,      \* <<canvas.width, canvas.height>>, NoDims before the canvas exists
    viewport,        \* the GL viewport's <<width, height>>, NoDims before gl.viewport
    arrayBuffer,     \* the buffer bound to ARRAY_BUFFER, NULL when none
    resizeListeners, \* number of listeners registered for window 'resize'
    delivered,       \* window dimensions read by the latest resize() run
    rafPending,      \* number of frame callbacks waiting for the next refresh
    startTime,       \* const startTime, NoTime before it is captured
    uTime,           \* uniform u_time (fixed point seconds)
    uRes,            \* uniform u_resolution
    frameCmds,       \* the GL commands issued by the latest frame callback
    drawn,           \* what the latest draw call drew with
    draws,           \* number of draw calls issued (counted up to MaxDraws)
    frameBit,        \* parity of the number of frame callbacks run
    listOpen,        \* the nav list has the class 'open'
    button,          \* the toggle button's innerText, NULL when there is no button
    clicks,          \* number of clicks handled (counted up to MaxClicks)
    frag             \* one fragment: its inputs and, once shaded, its outputs

vars == <<pc, env, page, clock, innerDims, resizeQueued, body, crt, initCalls,
          threw, menuRan, canvasDims, viewport, arrayBuffer, resizeListeners,
          delivered, rafPending, startTime, uTime, uRes, frameCmds, drawn,
          draws, frameBit, listOpen, button, clicks, frag>>

progVars == <<pc, env, page, clock, innerDims, resizeQueued, body, crt,
              initCalls, threw, menuRan, canvasDims, viewport, arrayBuffer,
              resizeListeners, delivered, rafPending, startTime, uTime, uRes,
              frameCmds, drawn, draws, frameBit, listOpen, button, clicks>>

crtVars == <<body, crt, initCalls, canvasDims, viewport, arrayBuffer,
             resizeListeners, delivered, rafPending, startTime, uTime, uRes,
             frameCmds, drawn, draws, frameBit>>

menuVars == <<listOpen, button, clicks>>

NULL == "null"

\* "Not set yet", for a pair of dimensions and for a timestamp.
NoDims == <<-1, -1>>
NoTime == -1

-----------------------------------------------------------------------------
\* Bounds of the model.

MaxClock == 3
MaxDraws == 2
MaxClicks == 2
MaxFaults == 1
GridHalf == 2
MaxTick == 4

\* Window sizes the user can give the window.
WindowSizes == {<<800, 600>>, <<1920, 1080>>, <<0, 0>>}

\* A canvas element is 300 x 150 until its width and height are set.
DefaultCanvas == <<300, 150>>

-----------------------------------------------------------------------------
\* compileShader / linkProgram

Shaders == {"VERTEX_SHADER", "FRAGMENT_SHADER"}

\* The answers of the WebGL implementation: getContext, createShader and
\* COMPILE_STATUS per shader, createProgram, LINK_STATUS, createBuffer.
AllEnvs ==
    [getContext : BOOLEAN,
     createShader : [Shaders -> BOOLEAN],
     compileStatus : [Shaders -> BOOLEAN],
     createProgram : BOOLEAN,
     linkStatus : BOOLEAN,
     createBuffer : BOOLEAN]

B2N(b) == IF b THEN 0 ELSE 1

\* Number of calls the implementation would fail.
Faults(e) ==
    B2N(e.getContext) + B2N(e.createShader["VERTEX_SHADER"])
    + B2N(e.createShader["FRAGMENT_SHADER"])
    + B2N(e.compileStatus["VERTEX_SHADER"])
    + B2N(e.compileStatus["FRAGMENT_SHADER"])
    + B2N(e.createProgram) + B2N(e.linkStatus) + B2N(e.createBuffer)

Envs == {e \in AllEnvs : Faults(e) <= MaxFaults}

compileShader(e, type) ==
    IF ~e.createShader[type] THEN NULL
    ELSE IF ~e.compileStatus[type] THEN NULL
    ELSE type

\* Faulty variant: LINK_STATUS is not tested.
linkProgram_NoStatusCheck(e, vs, fs) ==
    IF ~e.createProgram THEN NULL ELSE "program"

linkProgram(e, vs, fs) ==
    IF ~e.createProgram THEN NULL
    ELSE IF ~e.linkStatus THEN NULL
    ELSE "program"

-----------------------------------------------------------------------------
\* initCRT

\* blur in tenths of a pixel, brightness and opacity in hundredths.

\* Faulty variant: the last descriptor is missing.
bloomLayers_Short ==
    << [blur |-> 5,   brightness |-> 110, opacity |-> 45],
       [blur |-> 15,  brightness |-> 115, opacity |-> 30],
       [blur |-> 30,  brightness |-> 120, opacity |-> 20],
       [blur |-> 60,  brightness |-> 125, opacity |-> 14],
       [blur |-> 120, brightness |-> 120, opacity |-> 10],
       [blur |-> 240, brightness |-> 115, opacity |-> 7],
       [blur |-> 480, brightness |-> 110, opacity |-> 4] >>

bloomLayers ==
    << [blur |-> 5,   brightness |-> 110, opacity |-> 45],
       [blur |-> 15,  brightness |-> 115, opacity |-> 30],
       [blur |-> 30,  brightness |-> 120, opacity |-> 20],
       [blur |-> 60,  brightness |-> 125, opacity |-> 14],
       [blur |-> 120, brightness |-> 120, opacity |-> 10],
       [blur |-> 240, brightness |-> 115, opacity |-> 7],
       [blur |-> 480, brightness |-> 110, opacity |-> 4],
       [blur |-> 800, brightness |-> 105, opacity |-> 2] >>

\* One div per descriptor, in the array's order (forEach + appendChild).
bloomElements ==
    [i \in 1..Len(bloomLayers) |->
        [kind |-> "bloom", blur |-> bloomLayers[i].blur,
         brightness |-> bloomLayers[i].brightness,
         opacity |-> bloomLayers[i].opacity]]

canvasElement == [kind |-> "canvas", blur |-> 0, brightness |-> 0, opacity |-> 0]

\* The state initCRT leaves when it returns before `const vertices`.
crtAborted ==
    [crt |-> "failed", canvasDims |-> DefaultCanvas, viewport |-> NoDims,
     arrayBuffer |-> NULL, resizeListeners |-> 0, delivered |-> NoDims,
     rafPending |-> 0, startTime |-> NoTime, threw |-> FALSE]

\* resize(): canvas.width/height from the window, the viewport from the canvas.
\* Faulty variant: gl.viewport is not called.
resize_NoViewport(win) == [canvasDims |-> win, viewport |-> viewport]

resize(win) ==
    LET canvas == win
    IN  [canvasDims |-> canvas, viewport |-> canvas]

\* Lines 194-237: everything initCRT does after appending the elements.
\* createBuffer's result is bound without a check; with a null buffer
\* bufferData and vertexAttribPointer raise GL errors, not exceptions.
initGL(e, win, now) ==
    IF ~e.getContext THEN crtAborted
    ELSE LET vs == compileShader(e, "VERTEX_SHADER")
             fs == compileShader(e, "FRAGMENT_SHADER")
         IN  IF vs = NULL \/ fs = NULL THEN crtAborted
             ELSE IF linkProgram(e, vs, fs) = NULL THEN crtAborted
             ELSE LET buffer == IF e.createBuffer THEN "buffer" ELSE NULL
                      r == resize(win)
                  IN  [crt |-> "running", canvasDims |-> r.canvasDims,
                       viewport |-> r.viewport, arrayBuffer |-> buffer,
                       resizeListeners |-> 1, delivered |-> win,
                       rafPending |-> 1, startTime |-> now, threw |-> FALSE]

\* initMenu: the button is created only when both nav and nav ul exist, and
\* its label is '> ABRIR COMANDOS' whatever the list's classes are.
ABRIR == "> ABRIR COMANDOS"
CERRAR == "> CERRAR COMANDOS"

initMenu(pg) == IF pg = "navList" THEN ABRIR ELSE NULL

\* document.addEventListener('DOMContentLoaded', () => { initCRT(); initMenu(); })
DOMContentLoaded ==
    /\ pc = "loading"
    /\ pc' = "ready"
    /\ LET r == initGL(env, innerDims, clock)
       IN  /\ body' = body \o bloomElements \o <<canvasElement>>
           /\ initCalls' = initCalls + 1
           /\ crt' = r.crt
           /\ canvasDims' = r.canvasDims
           /\ viewport' = r.viewport
           /\ arrayBuffer' = r.arrayBuffer
           /\ resizeListeners' = r.resizeListeners
           /\ delivered' = r.delivered
           /\ rafPending' = r.rafPending
           /\ startTime' = r.startTime
           /\ threw' = r.threw
           /\ menuRan' = ~r.threw
           /\ button' = IF r.threw THEN NULL ELSE initMenu(page)
    /\ UNCHANGED <<env, page, clock, innerDims, resizeQueued, uTime, uRes,
                   frameCmds, drawn, draws, frameBit, listOpen, clicks, frag>>

-----------------------------------------------------------------------------
\* The environment: the clock and the window.

Tick ==
    /\ clock < MaxClock
    /\ clock' = clock + 1
    /\ UNCHANGED <<pc, env, page, innerDims, resizeQueued, threw, menuRan, frag>>
    /\ UNCHANGED crtVars
    /\ UNCHANGED menuVars

\* The user resizes the window; the browser queues a resize event.
WindowResize ==
    \E d \in WindowSizes \ {innerDims} :
        /\ innerDims' = d
        /\ resizeQueued' = TRUE
        /\ UNCHANGED <<pc, env, page, clock, threw, menuRan, frag>>
        /\ UNCHANGED crtVars
        /\ UNCHANGED menuVars

\* The queued resize event is dispatched to the registered listeners.
DispatchResize ==
    /\ resizeQueued
    /\ resizeQueued' = FALSE
    /\ IF resizeListeners > 0
       THEN LET r == resize(innerDims)
            IN  /\ canvasDims' = r.canvasDims
                /\ viewport' = r.viewport
                /\ delivered' = innerDims
       ELSE UNCHANGED <<canvasDims, viewport, delivered>>
    /\ UNCHANGED <<pc, env, page, clock, innerDims, threw, menuRan, frag, body,
                   crt, initCalls, arrayBuffer, resizeListeners, rafPending,
                   startTime, uTime, uRes, frameCmds, drawn, draws, frameBit>>
    /\ UNCHANGED menuVars

-----------------------------------------------------------------------------
\* render

\* Scale of the fixed-point representation of GLSL floats.
FP == 1000

\* (performance.now() - startTime) / 1000.0, as fixed-point seconds.
\* Faulty variant: a fixed step is added to the previous frame's value.
elapsed_Accumulated(now, start) == uTime + 1

elapsed(now, start) == ((now - start) * FP) \div 1000

\* Faulty variant: the next frame is not requested.
render_NoReschedule(now) ==
    [uTime |-> elapsed(now, startTime), uRes |-> canvasDims,
     cmds |-> <<"uniform1f", "uniform2f", "clear", "drawArrays">>,
     scheduled |-> 0]

render(now) ==
    [uTime |-> elapsed(now, startTime), uRes |-> canvasDims,
     cmds |-> <<"uniform1f", "uniform2f", "clear", "drawArrays">>,
     scheduled |-> 1]

\* The value of `drawn` before any draw call.
NoDraw ==
    [now |-> NoTime, uTime |-> 0, uRes |-> NoDims, canvasDims |-> NoDims,
     viewport |-> NoDims, delivered |-> NoDims, glError |-> FALSE]

DrawCalls(cmds) == Len(SelectSeq(cmds, LAMBDA c : c = "drawArrays"))

Min(a, b) == IF a < b THEN a ELSE b

\* The browser runs one pending frame callback.
Frame ==
    /\ rafPending > 0
    /\ LET f == render(clock)
       IN  /\ uTime' = f.uTime
           /\ uRes' = f.uRes
           /\ frameCmds' = f.cmds
           /\ rafPending' = rafPending - 1 + f.scheduled
           /\ draws' = Min(draws + DrawCalls(f.cmds), MaxDraws)
           /\ drawn' = IF DrawCalls(f.cmds) = 0 THEN drawn
                       ELSE [now |-> clock, uTime |-> f.uTime, uRes |-> f.uRes,
                             canvasDims |-> canvasDims, viewport |-> viewport,
                             delivered |-> delivered,
                             glError |-> arrayBuffer = NULL]
    /\ frameBit' = 1 - frameBit
    /\ UNCHANGED <<pc, env, page, clock, innerDims, resizeQueued, threw,
                   menuRan, frag, body, crt, initCalls, canvasDims, viewport,
                   arrayBuffer, resizeListeners, delivered, startTime>>
    /\ UNCHANGED menuVars

-----------------------------------------------------------------------------
\* The menu button's click listener.

\* Faulty variant: the label is not updated.
onClick_NoLabel(open, label) == [open |-> ~open, label |-> label]

onClick(open, label) ==
    LET toggled == ~open
    IN  [open |-> toggled, label |-> IF toggled THEN CERRAR ELSE ABRIR]

Click ==
    /\ button # NULL
    /\ LET r == onClick(listOpen, button)
       IN  /\ listOpen' = r.open
           /\ button' = r.label
    /\ clicks' = Min(clicks + 1, MaxClicks)
    /\ UNCHANGED <<pc, env, page, clock, innerDims, resizeQueued, threw,
                   menuRan, frag>>
    /\ UNCHANGED crtVars

-----------------------------------------------------------------------------
\* The page's specification.

InitPage(e, pg, win, open) ==
    /\ pc = "loading"
    /\ env = e
    /\ page = pg
    /\ clock = 0
    /\ innerDims = win
    /\ resizeQueued = FALSE
    /\ body = <<>>
    /\ crt = "none"
    /\ initCalls = 0
    /\ threw = FALSE
    /\ menuRan = FALSE
    /\ canvasDims = NoDims
    /\ viewport = NoDims
    /\ arrayBuffer = NULL
    /\ resizeListeners = 0
    /\ delivered = NoDims
    /\ rafPending = 0
    /\ startTime = NoTime
    /\ uTime = 0
    /\ uRes = <<0, 0>>
    /\ frameCmds = <<>>
    /\ drawn = NoDraw
    /\ draws = 0
    /\ frameBit = 0
    /\ listOpen = open
    /\ button = NULL
    /\ clicks = 0

\* gl_FragColor and the shader's locals before main() has run.
NotShaded ==
    [scanDark |-> 0, vigDark |-> 0, flickerDark |-> 0, sum |-> 0,
     rgb |-> <<0, 0, 0>>, alpha |-> 0]

\* No fragment is being shaded while the page's events are explored.
NoFragment ==
    [uv |-> <<0, 0>>, time |-> 0, res |-> <<0, 0>>, shaded |-> FALSE,
     out |-> NotShaded]

Pages == {"noNav", "navOnly", "navList"}

Init ==
    /\ \E e \in Envs, pg \in Pages, win \in WindowSizes, open \in BOOLEAN :
          /\ (open => pg = "navList")
          /\ InitPage(e, pg, win, open)
    /\ frag = NoFragment

Next ==
    \/ DOMContentLoaded
    \/ Tick
    \/ WindowResize
    \/ DispatchResize
    \/ Frame
    \/ Click

Spec == Init /\ [][Next]_vars

\* The browser runs a pending frame callback at the next display refresh.
FairSpec == Init /\ [][Next]_vars /\ WF_vars(Frame)

-----------------------------------------------------------------------------
\* The fragment shader, in fixed point (a float x is floor(x * FP)).

clamp(x, lo, hi) == IF x < lo THEN lo ELSE IF x > hi THEN hi ELSE x

\* sin(a) for 0 <= a <= p, p being pi in the unit of a (Bhaskara's formula
\* 16a(p - a) / (5p^2 - 4a(p - a))).
sinHalfTurn(a, p) ==
    (16 * a * (p - a)) \div ((5 * p * p - 4 * a * (p - a)) \div FP)

\* sin(a) for any a >= 0.
sin(a, p) ==
    LET m == a % (2 * p)
    IN  IF m <= p THEN sinHalfTurn(m, p) ELSE 0 - sinHalfTurn(m - p, p)

\* fract(x) = x - floor(x).
fract(x) == x % FP

\* length(v) of a 2-vector.
length(vx, vy) ==
    LET n == vx * vx + vy * vy
    IN  CHOOSE r \in 0..(2 * FP) : r * r <= n /\ (r + 1) * (r + 1) > n

\* smoothstep(e0, e1, x) = t*t*(3 - 2t), t = clamp((x - e0)/(e1 - e0), 0, 1).
smoothstep(e0, e1, x) ==
    LET t == clamp(((x - e0) * FP) \div (e1 - e0), 0, FP)
    IN  (t * t * (3 * FP - 2 * t)) \div (FP * FP)

\* hash(p): h = dot(p, vec2(127.1, 311.7)) in hundredths of a radian (pi is
\* 314 of them), then fract(sin(h) * 43758.5453123).
hash(px, py) ==
    LET h == px * 12710 + py * 31170
    IN  fract((sin(h, 314) * 437585) \div 10)

\* float scanDark (lines 67-70); sin(scanlineY * 3.14159265) takes its
\* argument in half turns, so pi is FP in the unit of uvy * resY.
scanDark(uvy, resY) ==
    LET scanThickness == 1
        scanlineY == (uvy * resY) \div scanThickness
        scanline == sin(scanlineY, FP)
    IN  ((FP - clamp(scanline, 0, FP)) * 25) \div 100

\* float vigDark (lines 84-86).
\* Faulty variant: uv is not remapped to [-1,1] about the centre.
vigDark_Uncentred(uvx, uvy) ==
    LET vigDist == length((uvx * 2 * 7) \div 10, (uvy * 2 * 5) \div 10)
    IN  (smoothstep(600, 1400, vigDist) * 75) \div 100

vigDark(uvx, uvy) ==
    LET vigCoordX == uvx * 2 - FP
        vigCoordY == uvy * 2 - FP
        vigDist == length((vigCoordX * 7) \div 10, (vigCoordY * 5) \div 10)
    IN  (smoothstep(600, 1400, vigDist) * 75) \div 100

\* float flickerDark (line 99).
flickerDark(time) ==
    LET tick == (time * 30) \div FP
    IN  ((hash(tick, 0) - FP \div 2) * 8) \div 100

\* float totalDark (line 101).
\* Faulty variant: the sum is not clamped.
totalDark_Unclamped(s, v, f) == s + v + f

totalDark(s, v, f) == clamp(s + v + f, 0, FP)

\* void main() of FRAGMENT_SHADER: gl_FragColor = vec4(totalAdd, totalDark).
main(uvx, uvy, time, res) ==
    LET s == scanDark(uvy, res[2])
        v == vigDark(uvx, uvy)
        f == flickerDark(time)
        totalAdd == <<0, 0, 0>>
    IN  [scanDark |-> s, vigDark |-> v, flickerDark |-> f,
         sum |-> s + v + f, rgb |-> totalAdd, alpha |-> totalDark(s, v, f)]

\* VERTEX_SHADER: v_uv = a_position * 0.5 + 0.5 over the quad's corners
\* (-1,-1), (1,-1), (-1,1), (1,1), interpolated across the quad; the samples
\* are the points i / (2 * GridHalf) of [0,1].
v_uv(i) == (i * FP) \div (2 * GridHalf)

UVs == {v_uv(i) : i \in 0..(2 * GridHalf)}

\* Elapsed times: the first and the second millisecond after each tick's start.
Times == {(k * FP) \div 30 + d : k \in 0..MaxTick, d \in {0, 1}}

\* Resolutions: the window sizes, and the 1 x 1 and 2 x 2 surfaces, whose
\* pixel centres are samples of the grid.
Resolutions == WindowSizes \cup {<<1, 1>>, <<2, 2>>}

\* The rasterizer's inputs to one fragment: v_uv and the two uniforms.
Fragments ==
    [uv : UVs \X UVs, time : Times, res : Resolutions, shaded : {FALSE},
     out : {NotShaded}]

\* One fragment is shaded.
ShadePixel ==
    /\ ~frag.shaded
    /\ frag' = [frag EXCEPT
                  !.shaded = TRUE,
                  !.out = main(frag.uv[1], frag.uv[2], frag.time, frag.res)]
    /\ UNCHANGED progVars

AllOk == CHOOSE e \in AllEnvs : Faults(e) = 0

ShaderInit ==
    /\ InitPage(AllOk, "noNav", <<800, 600>>, FALSE)
    /\ frag \in Fragments

ShaderNext == ShadePixel

ShaderSpec == ShaderInit /\ [][ShaderNext]_vars

-----------------------------------------------------------------------------
\* Properties.

\* The failures C1 is about: no drawing context, a shader that does not
\* compile, a program that does not link.
CapabilityFailure ==
    \/ ~env.getContext
    \/ \E t \in Shaders : ~env.compileStatus[t]
    \/ ~env.linkStatus

\* C1: when the drawing context cannot be acquired, or a shader fails to
\* compile, or the program fails to link, the handler still completes (no
\* exception, initMenu has run) and in every later state there has been no
\* draw call, no frame callback is scheduled, no resize listener is
\* registered and initCRT has been called once only.
C1_SilentNoOp ==
    (pc = "ready" /\ CapabilityFailure) =>
        /\ ~threw
        /\ menuRan
        /\ crt = "failed"
        /\ draws = 0
        /\ frameCmds = <<>>
        /\ rafPending = 0
        /\ resizeListeners = 0
        /\ initCalls = 1

C1_Witness ==
    /\ pc = "ready"
    /\ ~env.linkStatus
    /\ menuRan
    /\ clock = MaxClock
    /\ innerDims = <<1920, 1080>>
    /\ ~resizeQueued
    /\ canvasDims = DefaultCanvas

\* C2: when the program object or the vertex buffer cannot be created, the
\* frame loop is never started and no draw call is ever issued.
C2_ResourceFailureAborts ==
    (pc = "ready" /\ (~env.createProgram \/ ~env.createBuffer)) =>
        (rafPending = 0 /\ draws = 0)

\* C3: when the drawing context is missing, the only overlay elements in the
\* body after initCRT are the 8 bloom layers, and nothing was thrown.
C3_OnlyBloomLayers ==
    (pc = "ready" /\ ~env.getContext) =>
        /\ Len(body) = 8
        /\ \A i \in 1..Len(body) : body[i].kind = "bloom"
        /\ ~threw

\* C4: every draw call executes with the canvas's backing size, the GL
\* viewport and the resolution uniform all equal to the window size the
\* latest resize() run read (the initial one included).
C4_DrawsWithDeliveredSize ==
    draws > 0 =>
        /\ drawn.canvasDims = drawn.delivered
        /\ drawn.viewport = drawn.delivered
        /\ drawn.uRes = drawn.delivered

C4_Witness ==
    /\ draws = MaxDraws
    /\ drawn.delivered = <<1920, 1080>>
    /\ drawn.viewport = <<1920, 1080>>
    /\ innerDims = <<800, 600>>
    /\ canvasDims = <<800, 600>>
    /\ ~resizeQueued

\* C5: the start timestamp is set once, by initCRT, and never changes; each
\* frame passes (clock - startTime) / 1000 to the shader, whatever the
\* previous frame passed, and the value never decreases from frame to frame.
C5_ElapsedFromStart ==
    [][ /\ (startTime' # startTime => (pc = "loading" /\ startTime = NoTime))
        /\ (frameBit' # frameBit =>
              /\ uTime' * 1000 = (clock - startTime) * FP
              /\ drawn'.uTime = uTime'
              /\ uTime' >= uTime) ]_vars

C5_Witness ==
    /\ draws = MaxDraws
    /\ startTime > 0
    /\ drawn.now = MaxClock
    /\ uTime = MaxClock - startTime
    /\ uTime > 0

\* C6: once initCRT has succeeded the loop never stops: every frame callback
\* issues exactly one draw and leaves exactly one callback scheduled, no
\* step takes the overlay out of the running state, and with the browser
\* running pending callbacks, frames (hence draws) occur again and again.
C6_RunsForever ==
    /\ [](crt = "running" => rafPending = 1)
    /\ [][ /\ (crt = "running" => crt' = "running")
           /\ (frameBit' # frameBit =>
                 /\ DrawCalls(frameCmds') = 1
                 /\ rafPending' = 1) ]_vars
    /\ (crt = "running" /\ frameBit = 0) ~> (frameBit = 1)
    /\ (crt = "running" /\ frameBit = 1) ~> (frameBit = 0)

C6_Witness ==
    /\ crt = "running"
    /\ draws = MaxDraws
    /\ frameBit = 1
    /\ rafPending = 1
    /\ delivered # drawn.delivered

\* C7: for every fragment the alpha written is within [0,1] and the RGB
\* written is zero; scanline darkness is within [0,0.25], vignette darkness
\* within [0,0.75] and flicker within [-0.04,0.04].
C7_DarknessClamped ==
    frag.shaded =>
        /\ frag.out.alpha >= 0
        /\ frag.out.alpha <= FP
        /\ frag.out.rgb = <<0, 0, 0>>
        /\ frag.out.scanDark \in 0..((FP * 25) \div 100)
        /\ frag.out.vigDark \in 0..((FP * 75) \div 100)
        /\ frag.out.flickerDark \in (0 - (FP * 4) \div 100)..((FP * 4) \div 100)

\* The clamp acts: the centre pixel of a 1 x 1 surface, on a tick whose
\* flicker is negative.
C7_Witness ==
    /\ frag.shaded
    /\ frag.out.sum < 0
    /\ frag.out.alpha = 0
    /\ frag.out.flickerDark < 0
    /\ frag.out.scanDark = 0

Centre == <<FP \div 2, FP \div 2>>
Corners == {<<0, 0>>, <<FP, 0>>, <<0, FP>>, <<FP, FP>>}

C9_BloomStack ==
    LET layers == SelectSeq(body, LAMBDA el : el.kind = "bloom")
    IN  IF pc = "loading" THEN body = <<>>
        ELSE /\ Len(layers) = 8
             /\ \A i \in 1..8 :
                   /\ body[i] = layers[i]
                   /\ layers[i].blur = bloomLayers[i].blur
                   /\ layers[i].brightness = bloomLayers[i].brightness
                   /\ layers[i].opacity = bloomLayers[i].opacity
             /\ \A i \in 1..7 :
                   /\ layers[i].blur < layers[i + 1].blur
                   /\ layers[i].opacity > layers[i + 1].opacity

C9_Witness ==
    /\ crt = "failed"
    /\ ~env.getContext
    /\ clicks = MaxClicks
    /\ clock = MaxClock
    /\ delivered = NoDims
    /\ innerDims = <<0, 0>>
    /\ ~resizeQueued
    /\ Len(body) = 9

\* C10 as stated: whenever the button exists its label is CERRAR exactly
\* when the list has 'open' and ABRIR exactly when it has not.
C10_LabelAgrees ==
    button # NULL =>
        /\ (button = CERRAR <=> listOpen)
        /\ (button = ABRIR <=> ~listOpen)

\* C10 amended: before the first click the label is ABRIR whatever the
\* list's classes; after every click the label agrees with the list.
C10_LabelAgreesAfterClick ==
    button # NULL =>
        IF clicks = 0 THEN button = ABRIR
        ELSE /\ (button = CERRAR <=> listOpen)
             /\ (button = ABRIR <=> ~listOpen)

\* A list that started open, after one click.
C10_Witness ==
    /\ clicks = 1
    /\ button = ABRIR
    /\ ~listOpen

====
